---- MODULE Spec2Model ----
(***************************************************************************)
(* PyDesigner: model of the command-line bootstrap                         *)
(* (src/designer/pydesigner.py) and of the diffusion-image data model      *)
(* (src/dwipi.py).                                                         *)
(*                                                                         *)
(* Python strings are sequences of one-character strings, so that prefix   *)
(* matching of option strings and path splitting are computed the way      *)
(* argparse and os.path compute them.  None is the empty sequence.         *)
(* Attributes that can be unset hold <<>>.                                 *)
(***************************************************************************)
EXTENDS Integers, Sequences, FiniteSets, TLC

VARIABLES
  \* ---- src/designer/pydesigner.py ----
  installed,            \* executables present on the host (absolute paths)
  argv,                 \* sys.argv[1:]
  pc,                   \* position in the script
  dwidenoise_location,  \* line 15
  mrtrix3path,          \* line 22
  fsl_location,         \* line 25
  fslpath,              \* line 32
  args,                 \* line 141: <<>> until parsed, then <<namespace>>
  exit_status,          \* -1 while the process runs
  error,                \* message of the exception or of parser.error
  \* ---- src/dwipi.py ----
  files,                \* paths that exist on disk
  bvecFile,             \* rows of <basename>.bvec (<<>> when absent)
  bvalFile,             \* rows of <basename>.bval (<<>> when absent)
  imPath,               \* argument of DWI(imPath)
  dwi_pc,               \* "new", "constructed", "raised"
  hdr,                  \* self.hdr
  img,                  \* self.img
  grad,                 \* self.grad
  stdout,               \* lines printed
  raised,               \* exception that ended the last call ("" if none)
  order,                \* argument of the last createTensorOrder call
  result                \* value returned by the last createTensorOrder call

cli_vars == <<installed, argv, pc, dwidenoise_location, mrtrix3path,
              fsl_location, fslpath, args, exit_status, error>>
dwi_vars == <<files, bvecFile, bvalFile, imPath, dwi_pc, hdr, img, grad,
              stdout, raised, order, result>>
vars == <<cli_vars, dwi_vars>>

None == <<>>

\* Largest number of command-line arguments explored.
MaxArgs == 2

(***************************************************************************)
(* The half of the state a specification does not use                      *)
(***************************************************************************)
\* the data model is not used by the script
DWIIdle ==
  /\ files = {} /\ bvecFile = <<>> /\ bvalFile = <<>> /\ imPath = <<>>
  /\ dwi_pc = "idle" /\ hdr = <<>> /\ img = <<>> /\ grad = <<>>
  /\ stdout = <<>> /\ raised = "" /\ order = -1 /\ result = <<>>

CLIIdle ==
  /\ installed = {} /\ argv = <<>> /\ pc = "idle"
  /\ dwidenoise_location = None /\ mrtrix3path = None
  /\ fsl_location = None /\ fslpath = None
  /\ args = <<>> /\ exit_status = -1 /\ error = ""

(***************************************************************************)
(* Strings                                                                 *)
(***************************************************************************)
startswith(s, p) == Len(p) <= Len(s) /\ SubSeq(s, 1, Len(p)) = p

s_dwidenoise == <<"d", "w", "i", "d", "e", "n", "o", "i", "s", "e">>
s_fsl == <<"f", "s", "l">>
s_dataset == <<"d", "/", "s">>
s_555 == <<"5", ",", "5", ",", "5">>
s_010 == <<"0", ",", "1", ",", "0">>

\* os.path.join(a, b) for a relative b
os_path_join(a, b) ==
  IF a = <<>> THEN b
  ELSE IF a[Len(a)] = "/" THEN a \o b
  ELSE a \o <<"/">> \o b

\* index of the last "/" of p, 0 when there is none (str.rfind + 1)
rfind_sep(p) ==
  LET idx == {i \in 1..Len(p) : p[i] = "/"}
  IN IF idx = {} THEN 0 ELSE CHOOSE i \in idx : \A j \in idx : j <= i

\* str.rstrip('/')
RECURSIVE rstrip_sep(_)
rstrip_sep(s) ==
  IF s # <<>> /\ s[Len(s)] = "/" THEN rstrip_sep(SubSeq(s, 1, Len(s) - 1))
  ELSE s

\* posixpath.split(p) = (head, tail)
os_path_split(p) ==
  LET i == rfind_sep(p)
      head == SubSeq(p, 1, i)
      tail == SubSeq(p, i + 1, Len(p))
  IN <<IF rstrip_sep(head) = <<>> THEN head ELSE rstrip_sep(head), tail>>

os_path_dirname(p) == os_path_split(p)[1]

(***************************************************************************)
(* Toolchain discovery: src/designer/pydesigner.py lines 14-32             *)
(***************************************************************************)
dirA == <<"/", "a">>
dirB == <<"/", "b">>
\* the executable search path of the host
PATH == <<dirA, dirB>>

Executables ==
  {os_path_join(dirA, s_dwidenoise), os_path_join(dirB, s_dwidenoise),
   os_path_join(dirB, s_fsl)}

\* shutil.which(cmd): the first directory of PATH that holds cmd
shutil_which(cmd) ==
  LET hits == {i \in 1..Len(PATH) : os_path_join(PATH[i], cmd) \in installed}
  IN IF hits = {} THEN None
     ELSE os_path_join(PATH[CHOOSE i \in hits : \A j \in hits : i <= j], cmd)

(***************************************************************************)
(* Argument parser: src/designer/pydesigner.py lines 38-141                *)
(***************************************************************************)
\* the optionals of the parser: -h/--help (added by ArgumentParser) and
\* the add_argument calls of lines 70-138, in declaration order
Optionals ==
  <<
      [option_strings |-> {<<"-", "h">>,
                           <<"-", "-", "h", "e", "l", "p">>},
       dest |-> "help", action |-> "help"],
      [option_strings |-> {<<"-", "o">>,
                           <<"-", "-", "o", "u", "t", "p", "u", "t">>},
       dest |-> "output", action |-> "store"],
      [option_strings |-> {<<"-", "s">>,
                           <<"-", "-", "s", "t", "a", "n", "d", "a", "r", "d">>},
       dest |-> "standard", action |-> "store_true"],
      [option_strings |-> {<<"-", "-", "d", "e", "n", "o", "i", "s", "e">>},
       dest |-> "denoise", action |-> "store_true"],
      [option_strings |-> {<<"-", "-", "e", "x", "t", "e", "n", "t">>},
       dest |-> "extent", action |-> "store"],
      [option_strings |-> {<<"-", "-", "e", "d", "d", "y">>},
       dest |-> "eddy", action |-> "store_true"],
      [option_strings |-> {<<"-", "-", "b", "1", "c", "o", "r", "r", "e", "c", "t">>},
       dest |-> "b1correct", action |-> "store_true"],
      [option_strings |-> {<<"-", "-", "s", "c", "a", "l", "e", "b", "0", "m", "e", "d", "i", "a", "n">>},
       dest |-> "scaleb0median", action |-> "store_true"],
      [option_strings |-> {<<"-", "-", "s", "m", "o", "o", "t", "h">>},
       dest |-> "smooth", action |-> "store_true"],
      [option_strings |-> {<<"-", "d">>,
                           <<"-", "-", "D", "T", "I">>},
       dest |-> "DTI", action |-> "store_true"],
      [option_strings |-> {<<"-", "k">>,
                           <<"-", "-", "D", "K", "I">>},
       dest |-> "DKI", action |-> "store_true"],
      [option_strings |-> {<<"-", "w">>,
                           <<"-", "-", "W", "M", "T", "I">>},
       dest |-> "WMTI", action |-> "store_true"],
      [option_strings |-> {<<"-", "-", "k", "c", "u", "m", "u", "l", "a", "n", "t", "s">>},
       dest |-> "kcumulants", action |-> "store_true"],
      [option_strings |-> {<<"-", "-", "m", "a", "s", "k">>},
       dest |-> "mask", action |-> "store_true"],
      [option_strings |-> {<<"-", "-", "f", "i", "t", "_", "c", "o", "n", "s", "t", "r", "a", "i", "n", "t", "s">>},
       dest |-> "fit_constraints", action |-> "store"],
      [option_strings |-> {<<"-", "-", "r", "p", "e", "_", "n", "o", "n", "e">>},
       dest |-> "rpe_none", action |-> "store_true"],
      [option_strings |-> {<<"-", "-", "r", "p", "e", "_", "p", "a", "i", "r">>},
       dest |-> "rpe_pair", action |-> "store"],
      [option_strings |-> {<<"-", "-", "r", "p", "e", "_", "a", "l", "l">>},
       dest |-> "rpe_all", action |-> "store"],
      [option_strings |-> {<<"-", "-", "p", "e", "_", "d", "i", "r">>},
       dest |-> "pe_dir", action |-> "store"]
    >>

OptionStrings == UNION {Optionals[k].option_strings : k \in DOMAIN Optionals}

\* the action registered under an option string
OptionIndex(s) == CHOOSE k \in DOMAIN Optionals : s \in Optionals[k].option_strings

\* the namespace before any argument is consumed: the declared defaults
DefaultNamespace ==
  [dwi |-> None, output |-> None, standard |-> FALSE, denoise |-> FALSE,
   extent |-> s_555, eddy |-> FALSE, b1correct |-> FALSE,
   scaleb0median |-> FALSE, smooth |-> FALSE, DTI |-> FALSE, DKI |-> FALSE,
   WMTI |-> FALSE, kcumulants |-> FALSE, mask |-> FALSE,
   fit_constraints |-> s_010, rpe_none |-> FALSE, rpe_pair |-> None,
   rpe_all |-> None, pe_dir |-> None]

Digits == {"0", "1", "2", "3", "4", "5", "6", "7", "8", "9"}

\* ArgumentParser._negative_number_matcher, integers only
IsNegativeNumber(tok) ==
  Len(tok) >= 2 /\ tok[1] = "-" /\ \A i \in 2..Len(tok) : tok[i] \in Digits

\* ArgumentParser._get_option_tuples with allow_abbrev (the default):
\* the optionals of which tok is a prefix
get_option_tuples(tok) ==
  IF Len(tok) >= 2 /\ tok[1] = "-" /\ tok[2] = "-"
  THEN {k \in DOMAIN Optionals :
          \E s \in Optionals[k].option_strings : startswith(s, tok)}
  ELSE {k \in DOMAIN Optionals :
          \E s \in Optionals[k].option_strings :
             s = SubSeq(tok, 1, 2) \/ startswith(s, tok)}

\* ArgumentParser._parse_optional: "A" a positional, "O" an optional
\* (opt = 0 when no declared option matches), "E" an ambiguous prefix
parse_optional(tok) ==
  IF tok = <<>> THEN [cls |-> "A", opt |-> 0]
  ELSE IF tok[1] # "-" THEN [cls |-> "A", opt |-> 0]
  ELSE IF tok \in OptionStrings THEN [cls |-> "O", opt |-> OptionIndex(tok)]
  ELSE IF Len(tok) = 1 THEN [cls |-> "A", opt |-> 0]
  ELSE LET m == get_option_tuples(tok)
       IN IF Cardinality(m) > 1 THEN [cls |-> "E", opt |-> 0]
          ELSE IF Cardinality(m) = 1
               THEN [cls |-> "O", opt |-> CHOOSE k \in m : TRUE]
          ELSE IF IsNegativeNumber(tok) THEN [cls |-> "A", opt |-> 0]
          ELSE IF \E i \in 1..Len(tok) : tok[i] = " "
               THEN [cls |-> "A", opt |-> 0]
          ELSE [cls |-> "O", opt |-> 0]

ParseOk(ns) == [kind |-> "ok", ns |-> ns, status |-> 0, msg |-> ""]
ParseExit(status, msg) ==
  [kind |-> "exit", ns |-> DefaultNamespace, status |-> status, msg |-> msg]
\* the consuming loop ran to the end of the arguments
Consumed(ns, seen, extras) ==
  [kind |-> "consumed", ns |-> ns, seen |-> seen, extras |-> extras]

\* the consuming loop of ArgumentParser._parse_known_args: i the next
\* argument, seen whether dwi was filled, extras whether an argument was
\* left unrecognized
RECURSIVE consume(_, _, _, _, _)
consume(a, i, ns, seen, extras) ==
  IF i > Len(a) THEN Consumed(ns, seen, extras)
  ELSE LET c == parse_optional(a[i])
       IN IF c.cls = "A"
          THEN IF seen THEN consume(a, i + 1, ns, seen, TRUE)
               ELSE consume(a, i + 1, [ns EXCEPT !.dwi = a[i]], TRUE, extras)
          ELSE IF c.opt = 0 THEN consume(a, i + 1, ns, seen, TRUE)
          ELSE LET o == Optionals[c.opt]
               IN IF o.action = "help" THEN ParseExit(0, "help")
                  ELSE IF o.action = "store_true"
                  THEN consume(a, i + 1, [ns EXCEPT ![o.dest] = TRUE],
                               seen, extras)
                  ELSE IF i + 1 <= Len(a) /\ parse_optional(a[i + 1]).cls = "A"
                  THEN consume(a, i + 2, [ns EXCEPT ![o.dest] = a[i + 1]],
                               seen, extras)
                  ELSE ParseExit(2, "expected one argument")

\* parse_args as parse_known_args: unrecognized arguments are let through
parse_args_known(a) ==
  IF \E i \in 1..Len(a) : parse_optional(a[i]).cls = "E"
  THEN ParseExit(2, "ambiguous option")
  ELSE LET r == consume(a, 1, DefaultNamespace, FALSE, FALSE)
       IN IF r.kind = "exit" THEN r
          ELSE IF ~r.seen
          THEN ParseExit(2, "the following arguments are required: dwi")
          ELSE ParseOk(r.ns)

\* parser.parse_args(): every argument is classified first (an ambiguous
\* prefix is an error before anything is consumed), then consumed; a
\* missing dwi and leftover arguments are errors
parse_args(a) ==
  IF \E i \in 1..Len(a) : parse_optional(a[i]).cls = "E"
  THEN ParseExit(2, "ambiguous option")
  ELSE LET r == consume(a, 1, DefaultNamespace, FALSE, FALSE)
       IN IF r.kind = "exit" THEN r
          ELSE IF ~r.seen
          THEN ParseExit(2, "the following arguments are required: dwi")
          ELSE IF r.extras THEN ParseExit(2, "unrecognized arguments")
          ELSE ParseOk(r.ns)

\* The arguments explored.  No argument contains "=" and every
\* single-dash flag has one letter.
Tokens ==
  {s_dataset,
   <<"-", "w">>, <<"-", "k">>, <<"-", "-", "D", "K", "I">>,
   <<"-", "-", "W", "M">>, <<"-", "-", "D">>,
   <<"-", "-", "x">>, <<"-", "x">>,
   <<"-", "o">>, <<"-", "h">>}

Argvs == UNION {[1..n -> Tokens] : n \in 0..MaxArgs}

(***************************************************************************)
(* The script src/designer/pydesigner.py, statement by statement           *)
(***************************************************************************)
CLIInit ==
  /\ installed \in SUBSET Executables
  /\ argv \in Argvs
  /\ pc = "locate_mrtrix3"
  /\ dwidenoise_location = None
  /\ mrtrix3path = None
  /\ fsl_location = None
  /\ fslpath = None
  /\ args = <<>>
  /\ exit_status = -1
  /\ error = ""
  /\ DWIIdle

\* lines 15-22: which dwidenoise, raise when absent, derive mrtrix3path
LocateMrtrix3 ==
  /\ pc = "locate_mrtrix3"
  /\ dwidenoise_location' = shutil_which(s_dwidenoise)
  /\ IF dwidenoise_location' = None
     THEN /\ pc' = "raised"
          /\ error' = "Cannot find mrtrix3"
          /\ exit_status' = 1
          /\ UNCHANGED mrtrix3path
     ELSE /\ mrtrix3path' = os_path_dirname(dwidenoise_location')
          /\ pc' = "locate_fsl"
          /\ UNCHANGED <<error, exit_status>>
  /\ UNCHANGED <<installed, argv, fsl_location, fslpath, args>>
  /\ UNCHANGED dwi_vars

\* LocateFSL with a degraded mode: a missing FSL is noted and the run goes on
LocateFSL_degraded ==
  /\ pc = "locate_fsl"
  /\ fsl_location' = shutil_which(s_fsl)
  /\ fslpath' = IF fsl_location' = None THEN None
                ELSE os_path_dirname(fsl_location')
  /\ error' = IF fsl_location' = None THEN "Cannot find FSL" ELSE error
  /\ pc' = "parse_args"
  /\ UNCHANGED exit_status
  /\ UNCHANGED <<installed, argv, dwidenoise_location, mrtrix3path, args>>
  /\ UNCHANGED dwi_vars

\* lines 25-32: which fsl, raise when absent, derive fslpath
LocateFSL ==
  /\ pc = "locate_fsl"
  /\ fsl_location' = shutil_which(s_fsl)
  /\ IF fsl_location' = None
     THEN /\ pc' = "raised"
          /\ error' = "Cannot find FSL"
          /\ exit_status' = 1
          /\ UNCHANGED fslpath
     ELSE /\ fslpath' = os_path_dirname(fsl_location')
          /\ pc' = "parse_args"
          /\ UNCHANGED <<error, exit_status>>
  /\ UNCHANGED <<installed, argv, dwidenoise_location, mrtrix3path, args>>
  /\ UNCHANGED dwi_vars

\* lines 38-141: build the parser and parse sys.argv[1:]
ParseArgs ==
  /\ pc = "parse_args"
  /\ LET r == parse_args(argv)
     IN IF r.kind = "ok"
        THEN /\ args' = <<r.ns>>
             /\ pc' = "parsed"
             /\ UNCHANGED <<error, exit_status>>
        ELSE /\ pc' = "exited"
             /\ exit_status' = r.status
             /\ error' = r.msg
             /\ UNCHANGED args
  /\ UNCHANGED <<installed, argv, dwidenoise_location, mrtrix3path,
                 fsl_location, fslpath>>
  /\ UNCHANGED dwi_vars

CLINext == LocateMrtrix3 \/ LocateFSL \/ ParseArgs

(***************************************************************************)
(* numpy, as far as DWI.__init__ uses it.  An ndarray is                   *)
(* [ndim |-> 0, a |-> x], [ndim |-> 1, a |-> <<x, ...>>] or                *)
(* [ndim |-> 2, a |-> <<row, ...>>].  Numbers are fixed-point, in tenths.  *)
(***************************************************************************)
\* Largest number of volumes (columns of the .bvec file) explored.
MaxVolumes == 2

\* Largest order passed to createTensorOrder.
MaxOrder == 5

\* np.loadtxt(rows of a text file): the table, squeezed
np_loadtxt(rows) ==
  LET r == Len(rows)
      c == Len(rows[1])
  IN IF r = 1 /\ c = 1 THEN [ndim |-> 0, a |-> rows[1][1]]
     ELSE IF r = 1 THEN [ndim |-> 1, a |-> rows[1]]
     ELSE IF c = 1 THEN [ndim |-> 1, a |-> [i \in 1..r |-> rows[i][1]]]
     ELSE [ndim |-> 2, a |-> rows]

\* round half to even, on a non-negative number of tenths
rint(x) ==
  LET q == x \div 10
      f == x % 10
  IN IF f < 5 THEN 10 * q
     ELSE IF f > 5 THEN 10 * (q + 1)
     ELSE IF q % 2 = 0 THEN 10 * q ELSE 10 * (q + 1)

\* np.rint(x), elementwise
np_rint(x) ==
  IF x.ndim = 0 THEN [ndim |-> 0, a |-> rint(x.a)]
  ELSE IF x.ndim = 1
  THEN [ndim |-> 1, a |-> [i \in DOMAIN x.a |-> rint(x.a[i])]]
  ELSE [ndim |-> 2,
        a |-> [i \in DOMAIN x.a |-> [j \in DOMAIN x.a[i] |-> rint(x.a[i][j])]]]

\* np.transpose(x): reverses the axes, so only a 2-d array changes
np_transpose(x) ==
  IF x.ndim = 2
  THEN [ndim |-> 2,
        a |-> [j \in 1..Len(x.a[1]) |-> [i \in 1..Len(x.a) |-> x.a[i][j]]]]
  ELSE x

\* what np.c_ makes of an operand before concatenating: a 0-d value is a
\* 1 x 1 array, a 1-d array a column
as_columns(x) ==
  IF x.ndim = 0 THEN <<<<x.a>>>>
  ELSE IF x.ndim = 1 THEN [i \in DOMAIN x.a |-> <<x.a[i]>>]
  ELSE x.a

\* np.c_[x, y]: concatenation along the last axis; the row counts must agree
np_c_(x, y) ==
  LET X == as_columns(x)
      Y == as_columns(y)
  IN IF Len(X) # Len(Y) THEN [raised |-> "ValueError", a |-> <<>>]
     ELSE [raised |-> "", a |-> [i \in 1..Len(X) |-> X[i] \o Y[i]]]

(***************************************************************************)
(* DWI.__init__: src/dwipi.py lines 8-25                                   *)
(***************************************************************************)
p_nii == <<"d", "/", "s", ".", "n", "i", "i">>
p_bval == <<"d", "/", "s", ".", "b", "v", "a", "l">>
p_bvec == <<"d", "/", "s", ".", "b", "v", "e", "c">>
FileUniverse == {p_nii, p_bval, p_bvec}
\* the second path has no directory part and names no file of the universe
ImPaths == {p_nii, <<"s", ".", "n", "i", "i">>}

BvecValues == {-7, 10}
BvalValues == {5, 9996}

\* posixpath.splitext(file)[0]: cut at the last dot, unless it leads
os_path_splitext_root(file) ==
  LET idx == {i \in 2..Len(file) : file[i] = "."}
  IN IF idx = {} THEN file
     ELSE SubSeq(file, 1, (CHOOSE i \in idx : \A j \in idx : j <= i) - 1)

os_path_exists(p) == p \in files

\* the rows of a text file of the universe
ReadRows(p) == IF p = p_bvec THEN bvecFile ELSE bvalFile

\* the statement assert(<string>): passes when the string is truthy
assert_passes(msg) == msg # ""

nib_load(p) == <<"Nifti1Image", p>>
dataobj(h) == <<"dataobj", h[2]>>

\* lines 17-19: the gradient table from the two companion files
GradientTable(bvecPath, bvalPath) ==
  LET bvecs == np_loadtxt(ReadRows(bvecPath))
      bvals == np_rint(np_loadtxt(ReadRows(bvalPath)))
  IN np_c_(np_transpose(bvecs), bvals)

DWIInit ==
  /\ files \in SUBSET FileUniverse
  /\ imPath \in ImPaths
  /\ \E n \in 1..MaxVolumes :
       /\ bvecFile \in IF p_bvec \in files
                       THEN [1..3 -> [1..n -> BvecValues]] ELSE {<<>>}
       /\ bvalFile \in IF p_bval \in files
                       THEN {<<v>> : v \in [1..n -> BvalValues]} ELSE {<<>>}
  /\ dwi_pc = "new"
  /\ hdr = <<>>
  /\ img = <<>>
  /\ grad = <<>>
  /\ stdout = <<>>
  /\ raised = ""
  /\ order = -1
  /\ result = <<>>
  /\ CLIIdle

\* DWI(imPath): the whole constructor.  When it raises, no instance is
\* produced and the attributes set so far are lost with it.
DWI_init ==
  /\ dwi_pc = "new"
  /\ IF os_path_exists(imPath)
     THEN LET path == os_path_split(imPath)[1]
              file == os_path_split(imPath)[2]
              fName == os_path_splitext_root(file)
              bvalPath == os_path_join(path, fName \o <<".", "b", "v", "a", "l">>)
              bvecPath == os_path_join(path, fName \o <<".", "b", "v", "e", "c">>)
              loaded == [text |-> "loaded successfully", fName |-> fName]
          IN IF os_path_exists(bvalPath) /\ os_path_exists(bvecPath)
             THEN LET g == GradientTable(bvecPath, bvalPath)
                  IN IF g.raised # ""
                     THEN /\ dwi_pc' = "raised"
                          /\ raised' = g.raised
                          /\ UNCHANGED <<hdr, img, grad, stdout>>
                     ELSE /\ hdr' = <<nib_load(imPath)>>
                          /\ img' = <<dataobj(nib_load(imPath))>>
                          /\ grad' = <<g.a>>
                          /\ stdout' = Append(stdout, loaded)
                          /\ dwi_pc' = "constructed"
                          /\ UNCHANGED raised
             ELSE IF assert_passes("Unable to locate BVAL or BVEC files")
             THEN /\ hdr' = <<nib_load(imPath)>>
                  /\ img' = <<dataobj(nib_load(imPath))>>
                  /\ stdout' = Append(stdout, loaded)
                  /\ dwi_pc' = "constructed"
                  /\ UNCHANGED <<grad, raised>>
             ELSE /\ dwi_pc' = "raised"
                  /\ raised' = "AssertionError"
                  /\ UNCHANGED <<hdr, img, grad, stdout>>
     ELSE IF assert_passes("File in path not found. Please locate file and try again")
     THEN \* line 25 reads fName, which this branch never bound
          /\ dwi_pc' = "raised"
          /\ raised' = "UnboundLocalError"
          /\ UNCHANGED <<hdr, img, grad, stdout>>
     ELSE /\ dwi_pc' = "raised"
          /\ raised' = "AssertionError"
          /\ UNCHANGED <<hdr, img, grad, stdout>>
  /\ UNCHANGED <<files, bvecFile, bvalFile, imPath, order, result>>
  /\ UNCHANGED cli_vars

(***************************************************************************)
(* DWI.createTensorOrder: src/dwipi.py lines 27-37                         *)
(***************************************************************************)
\* the return statement with both locals preset to empty arrays
ReturnPair_defaulted(cnt, ind) ==
  IF cnt = <<>> \/ ind = <<>>
  THEN [raised |-> "", value |-> <<<<>>, <<>>>>]
  ELSE [raised |-> "", value |-> <<cnt[1], ind[1]>>]

\* line 37, return cnt, ind: a local variable is <<>> until an assignment
\* binds it to <<value>>, and reading an unbound local raises
ReturnPair(cnt, ind) ==
  IF cnt = <<>> \/ ind = <<>>
  THEN [raised |-> "UnboundLocalError", value |-> <<>>]
  ELSE [raised |-> "", value |-> <<cnt[1], ind[1]>>]

\* np.array(table) without the subtraction
minus_one_dropped(table) == table

\* np.array(table) - 1
minus_one(table) ==
  [i \in DOMAIN table |-> [j \in DOMAIN table[i] |-> table[i][j] - 1]]

\* the order-4 multiplicities with the entries of (0,0,1,1) and (0,0,1,2)
\* exchanged
Multiplicities4_exchanged ==
  <<1, 4, 4, 12, 6, 6, 4, 12, 12, 4, 1, 4, 6, 4, 1>>

\* line 34
Multiplicities4 ==
  <<1, 4, 4, 6, 12, 6, 4, 12, 12, 4, 1, 4, 6, 4, 1>>

\* lines 30-37
createTensorOrder(o) ==
  LET cnt2 == IF o = 2 THEN <<<<1, 2, 2, 1, 2, 1>>>> ELSE <<>>
      ind2 == IF o = 2
              THEN <<minus_one(<<<<1, 1>>, <<1, 2>>, <<1, 3>>,
                                 <<2, 2>>, <<2, 3>>, <<3, 3>>>>)>>
              ELSE <<>>
      cnt4 == IF o = 4 THEN <<Multiplicities4>> ELSE cnt2
      ind4 == IF o = 4
              THEN <<minus_one(<<<<1, 1, 1, 1>>, <<1, 1, 1, 2>>, <<1, 1, 1, 3>>,
                                 <<1, 1, 2, 2>>, <<1, 1, 2, 3>>, <<1, 1, 3, 3>>,
                                 <<1, 2, 2, 2>>, <<1, 2, 2, 3>>, <<1, 2, 3, 3>>,
                                 <<1, 3, 3, 3>>, <<2, 2, 2, 2>>, <<2, 2, 2, 3>>,
                                 <<2, 2, 3, 3>>, <<2, 3, 3, 3>>, <<3, 3, 3, 3>>>>)>>
              ELSE ind2
  IN ReturnPair(cnt4, ind4)

\* a call self.createTensorOrder(o) on a constructed instance
CreateTensorOrder ==
  /\ dwi_pc = "constructed"
  /\ \E o \in 0..MaxOrder :
       /\ order' = o
       /\ raised' = createTensorOrder(o).raised
       /\ result' = createTensorOrder(o).value
  /\ UNCHANGED <<files, bvecFile, bvalFile, imPath, dwi_pc, hdr, img, grad,
                 stdout>>
  /\ UNCHANGED cli_vars

DWINext == DWI_init \/ CreateTensorOrder

(***************************************************************************)
(* Specifications                                                          *)
(***************************************************************************)
\* a run of pydesigner.py
CLISpec == CLIInit /\ [][CLINext]_vars

\* the interpreter executes the next statement of the script
CLIFairSpec == CLISpec /\ WF_vars(CLINext)

\* a caller constructing one DWI and calling its method
DWISpec == DWIInit /\ [][DWINext]_vars

TypeOK ==
  /\ pc \in {"idle", "locate_mrtrix3", "locate_fsl", "parse_args", "parsed",
             "exited", "raised"}
  /\ dwi_pc \in {"idle", "new", "constructed", "raised"}
  /\ exit_status \in {-1, 0, 1, 2}
  /\ Len(args) <= 1
  /\ order \in -1..MaxOrder

(***************************************************************************)
(* Properties of the script                                                *)
(***************************************************************************)
ToolMissing ==
  shutil_which(s_dwidenoise) = None \/ shutil_which(s_fsl) = None

\* C1: whenever dwidenoise or fsl is absent from the search path, in every
\* combination, the run never reaches parse_args and never produces a
\* configuration, and it ends in the abort state.
C1_AbortBeforeParsing ==
  /\ [](ToolMissing =>
          /\ pc \in {"locate_mrtrix3", "locate_fsl", "raised"}
          /\ args = <<>>)
  /\ (ToolMissing ~> (pc = "raised" /\ exit_status # 0 /\ args = <<>>))

\* fsl alone is absent and the run has aborted
C1_Witness ==
  /\ pc = "raised"
  /\ error = "Cannot find FSL"
  /\ dwidenoise_location # None
  /\ fsl_location = None

IsFlag(tok) == tok # <<>> /\ tok[1] = "-"

LongOptions == {s \in OptionStrings : startswith(s, <<"-", "-">>)}

\* tok is an undeclared "--" flag that is a prefix of exactly one declared
\* long option
UniqueAbbreviation(tok) ==
  /\ startswith(tok, <<"-", "-">>)
  /\ tok \notin OptionStrings
  /\ Cardinality({s \in LongOptions : startswith(s, tok)}) = 1

HelpStrings == {<<"-", "h">>, <<"-", "-", "h", "e", "l", "p">>}

\* the command line holds -h, --help or an abbreviation of --help
HelpRequested ==
  \E i \in DOMAIN argv :
     \/ argv[i] \in HelpStrings
     \/ /\ UniqueAbbreviation(argv[i])
        /\ startswith(<<"-", "-", "h", "e", "l", "p">>, argv[i])

DwiMissing == \A i \in DOMAIN argv : IsFlag(argv[i])

UndeclaredFlag(tok) == IsFlag(tok) /\ tok \notin OptionStrings

UsageError == pc = "exited" /\ exit_status # 0 /\ args = <<>>

ParsingOver == pc \in {"parsed", "exited"}

\* C6: with only the dataset argument, output is the dataset's directory,
\* extent is "5,5,5", fit_constraints is "0,1,0" and every boolean flag is
\* false.
C6_DatasetOnlyDefaults ==
  (pc = "parsed" /\ Len(argv) = 1) =>
     LET ns == args[1]
     IN /\ ns.dwi = argv[1]
        /\ ns.output = os_path_dirname(ns.dwi)
        /\ ns.extent = s_555
        /\ ns.fit_constraints = s_010
        /\ \A f \in {"standard", "denoise", "eddy", "b1correct",
                     "scaleb0median", "smooth", "DTI", "DKI", "WMTI",
                     "kcumulants", "mask", "rpe_none"} : ns[f] = FALSE

C8_WMTIImpliesDKI ==
  pc = "parsed" => (args[1].WMTI => args[1].DKI)

(***************************************************************************)
(* Properties of the data model                                            *)
(***************************************************************************)
\* the companions of the image of the universe
CompanionsPresent == p_bval \in files /\ p_bvec \in files

Constructed == dwi_pc = "constructed"
ConstructionOver == dwi_pc \in {"constructed", "raised"}

\* C2: constructing from a path that names no existing file fails with
\* NotFound; no instance, header, voxel data or gradient table results.
C2_NotFound ==
  (ConstructionOver /\ imPath \notin files) =>
     /\ dwi_pc = "raised"
     /\ raised = "NotFound"
     /\ hdr = <<>> /\ img = <<>> /\ grad = <<>>

\* C3: constructing from an existing image with .bval or .bvec missing
\* fails with MissingData and prints no confirmation.
C3_MissingData ==
  (ConstructionOver /\ imPath \in files /\ ~CompanionsPresent) =>
     /\ dwi_pc = "raised"
     /\ raised = "MissingData"
     /\ stdout = <<>>

\* C5: with the image and both companions present, a 3 x n b-vector table
\* and n b-values, construction yields a gradient table of n rows
\* [bvec[0][i], bvec[1][i], bvec[2][i], round(bval[i])], in volume order.
C5_GradientTable ==
  (ConstructionOver /\ imPath \in files /\ CompanionsPresent) =>
     /\ Constructed
     /\ grad # <<>>
     /\ LET n == Len(bvecFile[1])
            g == grad[1]
        IN /\ Len(g) = n
           /\ \A i \in 1..n :
                /\ Len(g[i]) = 4
                /\ \A r \in 1..3 : g[i][r] = bvecFile[r][i]
                /\ g[i][4] % 10 = 0
                /\ g[i][4] - bvalFile[1][i] \in -5..5

RECURSIVE SeqSum(_)
SeqSum(s) == IF s = <<>> THEN 0 ELSE s[1] + SeqSum(Tail(s))

\* C4: for order 2 and 4 the multiplicities sum to 3^order, there are 6
\* (order 2) or 15 (order 4) index tuples, as many as multiplicities, each
\* of length order over {0,1,2}, and no tuple occurs twice.
C4_TensorTableShape ==
  (order \in {2, 4}) =>
     /\ raised = ""
     /\ Len(result) = 2
     /\ LET cnt == result[1]
            ind == result[2]
        IN /\ SeqSum(cnt) = 3 ^ order
           /\ Len(ind) = (IF order = 2 THEN 6 ELSE 15)
           /\ Len(cnt) = Len(ind)
           /\ \A i \in DOMAIN ind :
                /\ Len(ind[i]) = order
                /\ \A j \in DOMAIN ind[i] : ind[i][j] \in 0..2
           /\ \A i, j \in DOMAIN ind : i # j => ind[i] # ind[j]

C4_Witness == order = 4 /\ raised = "" /\ Len(result) = 2

\* the index tuples of a full tensor of the given order in 3 dimensions
FullTensor(o) == [1..o -> 0..2]

NonDecreasing(t) == \A j \in 1..(Len(t) - 1) : t[j] <= t[j + 1]

LexLess(s, t) ==
  \E j \in 1..Len(s) :
     /\ s[j] < t[j]
     /\ \A k \in 1..(j - 1) : s[k] = t[k]

Occurrences(t, v) == Cardinality({j \in DOMAIN t : t[j] = v})

IsPermutationOf(s, t) == \A v \in 0..2 : Occurrences(s, v) = Occurrences(t, v)

\* the independent components of a fully symmetric tensor, each with the
\* number of full-tensor entries it stands for
SymmetricComponents2 ==
  [t \in {u \in FullTensor(2) : NonDecreasing(u)} |->
     Cardinality({u \in FullTensor(2) : IsPermutationOf(u, t)})]
SymmetricComponents4 ==
  [t \in {u \in FullTensor(4) : NonDecreasing(u)} |->
     Cardinality({u \in FullTensor(4) : IsPermutationOf(u, t)})]

\* C9: for order 2 and 4 the indices are exactly the non-decreasing tuples
\* over {0,1,2}, in lexicographic order, and multiplicities[i] is the number
\* of distinct permutations of indices[i].
C9_SymmetricComponents ==
  (order \in {2, 4}) =>
     /\ Len(result) = 2
     /\ LET cnt == result[1]
            ind == result[2]
            comp == IF order = 2 THEN SymmetricComponents2
                    ELSE SymmetricComponents4
        IN /\ {ind[i] : i \in DOMAIN ind} = DOMAIN comp
           /\ \A i \in 1..(Len(ind) - 1) : LexLess(ind[i], ind[i + 1])
           /\ Len(cnt) = Len(ind)
           /\ \A i \in DOMAIN ind : cnt[i] = comp[ind[i]]

C9_Witness == order = 4 /\ Len(result) = 2 /\ result[1][5] = 12

\* C10: a call with an order other than 2 or 4 ends in an error and returns
\* no pair; a call with order 2 or 4 returns the pair that belongs to the
\* order; no call changes the header, the voxel data or the gradient table.
C10_OtherOrders ==
  /\ []((order # -1 /\ order \notin {2, 4}) =>
          (raised # "" /\ result = <<>>))
  /\ [](order = 2 =>
          /\ raised = ""
          /\ result = <<<<1, 2, 2, 1, 2, 1>>,
                        <<<<0, 0>>, <<0, 1>>, <<0, 2>>,
                          <<1, 1>>, <<1, 2>>, <<2, 2>>>>>>)
  /\ [](order = 4 =>
          /\ raised = ""
          /\ result[1] = <<1, 4, 4, 6, 12, 6, 4, 12, 12, 4, 1, 4, 6, 4, 1>>
          /\ Len(result[2]) = 15
          /\ result[2][1] = <<0, 0, 0, 0>>
          /\ result[2][15] = <<2, 2, 2, 2>>)
  /\ [][Constructed => (hdr' = hdr /\ img' = img /\ grad' = grad)]_vars

\* order 3 was passed to an instance that holds a gradient table
C10_Witness ==
  /\ order = 3
  /\ raised = "UnboundLocalError"
  /\ result = <<>>
  /\ grad # <<>>

====
